---- MODULE Spec2Model ----
(***************************************************************************)
(* Model of demo/blinky-temperature/src/main.c: startup validation of the  *)
(* LEDs and sensors, per-sensor threshold calibration, the asynchronous    *)
(* temp_alert_handler, and the perpetual monitor loop.                     *)
(*                                                                         *)
(* Temperatures are IEEE-754 doubles, computed bit for bit as the C code   *)
(* computes them.                                                          *)
(* Driver calls (gpio_*, sensor_*, device_is_ready) are the environment:   *)
(* their return codes and samples are chosen nondeterministically.         *)
(***************************************************************************)
EXTENDS Integers, Sequences, FiniteSets

\* ---------------------------------------------------------------- bounds
NumLeds == 2
NumSensors == 2
MaxIter == 2

\* Return codes a driver call may produce: a negative errno, success, and a
\* positive value (the code tests "< 0" in some places and "!= 0" in others).
RetCodes == {-5, 0, 1}

\* Samples the thermometers may deliver through sensor_channel_get, as
\* struct sensor_value: val1 integer part, val2 fractional part in
\* millionths; both carry the sign of the value.
TempSamples ==
    {[val1 |-> 20, val2 |-> 0], [val1 |-> 20, val2 |-> 500000],
     [val1 |-> 20, val2 |-> 577000], [val1 |-> 21, val2 |-> 77000],
     [val1 |-> 31, val2 |-> 700000], [val1 |-> 2147483646, val2 |-> 0]}

SensorNames == {"thermometer", "other"}

Leds == 1..NumLeds
Sensors == 1..NumSensors

\* ------------------------------------------------- IEEE-754 double values
\* The program computes temperatures in C doubles.  A double is the record
\* [neg, exp, hi, lo]: the value (-1)^neg * (hi * 2^26 + lo) * 2^(exp - 52)
\* with a 53-bit significand, its leading bit set (2^26 <= hi < 2^27,
\* 0 <= lo < 2^26); zero has hi = lo = exp = 0.  Arithmetic is done exactly
\* on binary digit strings (most significant digit first) and then rounded
\* to nearest, ties to even, as the hardware does.
Million == 1000000

Zero == [neg |-> FALSE, exp |-> 0, hi |-> 0, lo |-> 0]

Zeros(k) == [i \in 1..k |-> 0]

RECURSIVE Pow2(_)
Pow2(k) == IF k = 0 THEN 1 ELSE 2 * Pow2(k - 1)

\* Number of binary digits of a natural n < 2^31.
BitLen(n) ==
    IF n \div Pow2(30) > 0 THEN 31
    ELSE CHOOSE k \in 0..30 :
            /\ n \div Pow2(k) = 0
            /\ k > 0 => n \div Pow2(k - 1) > 0

NatBits(n) ==
    LET len == BitLen(n)
    IN  [i \in 1..len |-> (n \div Pow2(len - i)) % 2]

RECURSIVE BitsNat(_)
BitsNat(b) ==
    IF Len(b) = 0 THEN 0
    ELSE 2 * BitsNat(SubSeq(b, 1, Len(b) - 1)) + b[Len(b)]

\* b without its leading zeros.
Strip(b) ==
    IF \A i \in 1..Len(b) : b[i] = 0 THEN <<>>
    ELSE LET first == CHOOSE i \in 1..Len(b) :
                        /\ b[i] = 1
                        /\ \A j \in 1..(i - 1) : b[j] = 0
         IN  SubSeq(b, first, Len(b))

Widen(b, n) == IF Len(b) >= n THEN b ELSE Zeros(n - Len(b)) \o b

\* The carry into digit i of a + b, for strings of one length: some lower
\* digit generates a carry and every digit between passes it on.
Carry(a, b, i) ==
    \E j \in (i + 1)..Len(a) :
        /\ a[j] + b[j] = 2
        /\ \A k \in (i + 1)..(j - 1) : a[k] + b[k] = 1

\* a + b for strings of one length n: n + 1 digits.
AddSame(a, b) ==
    [i \in 1..(Len(a) + 1) |->
        IF i = 1 THEN (IF Carry(a, b, 0) THEN 1 ELSE 0)
        ELSE (a[i - 1] + b[i - 1]
                + (IF Carry(a, b, i - 1) THEN 1 ELSE 0)) % 2]

Borrow(a, b, i) ==
    \E j \in (i + 1)..Len(a) :
        /\ a[j] < b[j]
        /\ \A k \in (i + 1)..(j - 1) : a[k] = b[k]

\* a - b for strings of one length, a >= b.
SubSame(a, b) ==
    [i \in 1..Len(a) |->
        (2 + a[i] - b[i] - (IF Borrow(a, b, i) THEN 1 ELSE 0)) % 2]

LessBits(a, b) ==
    \E i \in 1..Len(a) :
        /\ a[i] < b[i]
        /\ \A j \in 1..(i - 1) : a[j] = b[j]

\* An exact binary number: (-1)^neg * bits * 2^(-flen).
Dyadic(d) ==
    IF d.hi = 0 THEN [neg |-> FALSE, bits |-> <<>>, flen |-> 0]
    ELSE LET m == NatBits(d.hi) \o Widen(NatBits(d.lo), 26)
         IN  IF d.exp >= 52
             THEN [neg |-> d.neg, bits |-> m \o Zeros(d.exp - 52),
                   flen |-> 0]
             ELSE [neg |-> d.neg, bits |-> m, flen |-> 52 - d.exp]

\* The exact sum of two binary numbers.
ExactAdd(x, y) ==
    LET f == IF x.flen > y.flen THEN x.flen ELSE y.flen
        xa == x.bits \o Zeros(f - x.flen)
        ya == y.bits \o Zeros(f - y.flen)
        n == IF Len(xa) > Len(ya) THEN Len(xa) ELSE Len(ya)
        a == Widen(xa, n)
        b == Widen(ya, n)
    IN  IF x.neg = y.neg
        THEN [neg |-> x.neg, bits |-> AddSame(a, b), flen |-> f]
        ELSE IF a = b THEN [neg |-> FALSE, bits |-> <<>>, flen |-> 0]
        ELSE IF LessBits(a, b)
        THEN [neg |-> y.neg, bits |-> SubSame(b, a), flen |-> f]
        ELSE [neg |-> x.neg, bits |-> SubSame(a, b), flen |-> f]

\* Round to nearest double, ties to even; sticky tells that digits beyond
\* x.bits were non-zero.
RoundToDouble(x, sticky) ==
    LET s == Strip(x.bits)
        n == Len(s)
        p == s \o Zeros(54)
        kept == SubSeq(p, 1, 53)
        rest == sticky \/ \E i \in 55..n : s[i] = 1
        up == p[54] = 1 /\ (rest \/ kept[53] = 1)
        m == IF up THEN AddSame(kept, Zeros(52) \o <<1>>)
             ELSE <<0>> \o kept
        carry == m[1] = 1
        mant == IF carry THEN SubSeq(m, 1, 53) ELSE SubSeq(m, 2, 54)
    IN  IF n = 0 THEN Zero
        ELSE [neg |-> x.neg,
              exp |-> n - 1 - x.flen + (IF carry THEN 1 ELSE 0),
              hi |-> BitsNat(SubSeq(mant, 1, 27)),
              lo |-> BitsNat(SubSeq(mant, 28, 53))]

\* (double)n for an int32 n.
IntToDouble(n) ==
    RoundToDouble([neg |-> n < 0,
                   bits |-> NatBits(IF n < 0 THEN 0 - n ELSE n),
                   flen |-> 0], FALSE)

\* a + b in double arithmetic.
DoubleAdd(a, b) == RoundToDouble(ExactAdd(Dyadic(a), Dyadic(b)), FALSE)

\* (r * 2^k) mod 1000000 for r < 1000000, ten digits at a time.
RECURSIVE ShiftMod(_, _)
ShiftMod(r, k) ==
    IF k <= 10 THEN (r * Pow2(k)) % Million
    ELSE ShiftMod((r * 1024) % Million, k - 10)

\* Binary places computed of a quotient by 1000000.
Places == 80

\* (double)n / 1000000 in double arithmetic, for an int32 n: the integer
\* part, then Places binary places by long division.
DivMillion(n) ==
    LET a == IF n < 0 THEN 0 - n ELSE n
        r == a % Million
    IN  RoundToDouble(
            [neg |-> n < 0,
             bits |-> NatBits(a \div Million) \o
                      [k \in 1..Places |->
                            (2 * ShiftMod(r, k - 1)) \div Million],
             flen |-> Places],
            ShiftMod(r, Places) # 0)

\* The c-th group of ten binary places of f, as a number.
Group(f, c) == BitsNat(SubSeq(f, 10 * c - 9, 10 * c))

\* Integer part of 1000000 * 0.g, g the places of f from group c on.
RECURSIVE MillionTimes(_, _)
MillionTimes(f, c) ==
    IF 10 * c > Len(f) THEN 0
    ELSE (Group(f, c) * Million + MillionTimes(f, c + 1)) \div 1024

\* 1000000 * 0.f exactly, for f of a multiple of ten places: integer
\* digits, then Len(f) binary places.
MulMillion(f) ==
    NatBits(MillionTimes(f, 1)) \o
    [i \in 1..Len(f) |->
        LET c == (i - 1) \div 10 + 1
            v == (Group(f, c) * Million + MillionTimes(f, c + 1)) % 1024
        IN  (v \div Pow2(9 - ((i - 1) % 10))) % 2]

\* a < b and a <= b on doubles.
MagLess(a, b) ==
    IF b.hi = 0 THEN FALSE
    ELSE IF a.hi = 0 THEN TRUE
    ELSE \/ a.exp < b.exp
         \/ a.exp = b.exp /\ a.hi < b.hi
         \/ a.exp = b.exp /\ a.hi = b.hi /\ a.lo < b.lo

Less(a, b) ==
    IF a.neg = b.neg
    THEN IF a.neg THEN MagLess(b, a) ELSE MagLess(a, b)
    ELSE a.neg

LessEq(a, b) == a = b \/ Less(a, b)

Half == [neg |-> FALSE, exp |-> 0 - 1, hi |-> 67108864, lo |-> 0]
One == [neg |-> FALSE, exp |-> 0, hi |-> 67108864, lo |-> 0]
OneAndHalf == [neg |-> FALSE, exp |-> 0, hi |-> 100663296, lo |-> 0]

\* ------------------------------------------------- sensor_value handling
\* sensor_value_to_double(): (double)val1 + (double)val2 / 1000000.
sensor_value_to_double(val) ==
    DoubleAdd(IntToDouble(val.val1), DivMillion(val.val2))

ERANGE == 34
Int32Max == 2147483647

\* Digits before and after the binary point of an exact binary number.
IntBits(dy) ==
    LET ilen == Len(dy.bits) - dy.flen
    IN  IF ilen > 0 THEN SubSeq(dy.bits, 1, ilen) ELSE <<>>

FracBits(dy) ==
    LET ilen == Len(dy.bits) - dy.flen
    IN  IF ilen >= 0 THEN SubSeq(dy.bits, ilen + 1, Len(dy.bits))
        ELSE Zeros(0 - ilen) \o dy.bits

AllZero(b) == \A i \in 1..Len(b) : b[i] = 0

\* (int32_t)d of a double d of magnitude below 2^31: truncation toward
\* zero.
Truncated(d) ==
    (IF d.neg THEN 0 - 1 ELSE 1) * BitsNat(IntBits(Dyadic(d)))

\* "inp < INT32_MIN || inp > INT32_MAX"
OutOfRange(dy) ==
    LET ilen == Len(dy.bits) - dy.flen
    IN  \/ ilen > 32
        \/ ilen = 32 /\ ~(dy.neg /\ AllZero(Tail(dy.bits)))
        \/ /\ ilen = 31 /\ ~dy.neg
           /\ BitsNat(IntBits(dy)) = Int32Max
           /\ ~AllZero(FracBits(dy))

\* 0.f * 1000000.0 in double arithmetic, f the binary places of inp - val1
\* (that difference is exact).
FractionTimesMillion(f, neg) ==
    LET fpad == f \o Zeros((10 - (Len(f) % 10)) % 10)
    IN  RoundToDouble([neg |-> neg, bits |-> MulMillion(fpad),
                       flen |-> Len(fpad)], FALSE)

\* sensor_value_from_double(): -ERANGE for inp outside the int32 range;
\* else val1 = (int32_t)inp and val2 = (int32_t)((inp - val1) * 1000000.0),
\* both truncating toward zero; the product is rounded to a double before
\* it is truncated.
sensor_value_from_double(inp) ==
    IF OutOfRange(Dyadic(inp))
    THEN [ret |-> 0 - ERANGE, val1 |-> 0, val2 |-> 0]
    ELSE IF inp.neg /\ inp.exp = 31
    THEN [ret |-> 0, val1 |-> 0 - Int32Max - 1, val2 |-> 0]
    ELSE [ret |-> 0,
          val1 |-> Truncated(inp),
          val2 |-> Truncated(FractionTimesMillion(FracBits(Dyadic(inp)),
                                                  inp.neg))]

\* The double each sample converts to, tabulated once.
SampleTemps == [t \in TempSamples |-> sensor_value_to_double(t)]

\* read_temperature(): fetch, then channel get; a negative fetch code is
\* returned at once, otherwise the channel-get code is the result.
read_temperature(fetch, get) == IF fetch < 0 THEN fetch ELSE get

\* Every result read_temperature can deliver.
ReadResults == {read_temperature(f, g) : f \in RetCodes, g \in RetCodes}

\* ------------------------------------------------------------ calibration
LowOffset == Half
HighOffset == OneAndHalf

\* "low_temp = temp + 0.5;" and "high_temp = temp + 1.5;"
LowThreshold(t) == DoubleAdd(t, LowOffset)

HighThresholdShort(t) == DoubleAdd(t, One)
HighThreshold(t) == DoubleAdd(t, HighOffset)

\* What main() computes from each baseline a read can deliver, tabulated
\* once: the two thresholds and their sensor_value_from_double results.
Calibration ==
    [t \in {SampleTemps[s] : s \in TempSamples} |->
        [low |-> LowThreshold(t),
         high |-> HighThreshold(t),
         low_value |-> sensor_value_from_double(LowThreshold(t)),
         high_value |-> sensor_value_from_double(HighThreshold(t))]]

\* ------------------------------------------------------- alert classifier
ClassifyStrict(v, lo, hi) ==
    IF Less(v, lo) THEN "below"
    ELSE IF Less(hi, v) THEN "above"
    ELSE "inconsistent"
Classify(v, lo, hi) ==
    IF LessEq(v, lo) THEN "below"
    ELSE IF LessEq(hi, v) THEN "above"
    ELSE "inconsistent"

VARIABLES
    names,          \* all_sensor_names[]: the manifest's friendly names
    pc,             \* position of main()
    idx,            \* loop variable i of the for loop main() is in
    led_state,      \* led_state[]
    is_themometer,  \* is_themometer[]
    low_temp,       \* static double low_temp
    high_temp,      \* static double high_temp
    temp,           \* main's local temp (the baseline)
    retval,         \* value returned by main()
    exit_at,        \* which return statement main() left through
    pin_level,      \* logical output level of each LED pin (hardware)
    lower_set,      \* sensor_attr_set(LOWER) succeeded in this calibration
    upper_set,      \* sensor_attr_set(UPPER) succeeded in this calibration
    attr_value,     \* value handed to the latest sensor_attr_set call of
                    \* the calibration in progress
    trigger_calls,  \* sensors sensor_trigger_set was called for
    armed,          \* sensors whose trigger handler is registered
    led_checks,     \* number of gpio_is_ready_dt calls per LED
    sensor_checks,  \* number of device_is_ready calls per sensor
    led_ops,        \* LEDs configured or toggled so far
    sensor_ops,     \* sensors read / attr-set / trigger-set so far
    not_ready_seen, \* some readiness check has reported not-ready
    iters,          \* completed monitor-loop iterations
    read_ok,        \* sensors read and reported in this iteration
    read_failed,    \* sensors whose read failed in this iteration
    toggled,        \* LEDs whose toggle was attempted this iteration
    alert,          \* report of temp_alert_handler, if it ran in the last step
    baseline        \* history: baseline each sensor was calibrated from
                    \* (recorded only by SpecRecorded)

vars == <<names, pc, idx, led_state, is_themometer, low_temp, high_temp,
          temp, retval, exit_at, pin_level, lower_set, upper_set, attr_value,
          trigger_calls, armed, led_checks, sensor_checks, led_ops,
          sensor_ops, not_ready_seen, iters, read_ok, read_failed, toggled,
          alert, baseline>>

hwVars == <<pin_level, lower_set, upper_set, attr_value, trigger_calls,
           armed>>

NoValue == [val1 |-> 0, val2 |-> 0]
iterVars == <<iters, read_ok, read_failed, toggled>>
checkVars == <<led_checks, sensor_checks, not_ready_seen>>
calibVars == <<low_temp, high_temp, temp>>

NoAlert ==
    [kind |-> "none", dev |-> 0, v |-> Zero, failed |-> FALSE, reads |-> 0]

Init ==
    /\ names \in [Sensors -> SensorNames]
    /\ pc = "led_ready"
    /\ idx = 1
    /\ led_state = [i \in Leds |-> FALSE]
    /\ is_themometer = [i \in Sensors |-> 0]
    /\ low_temp = Zero
    /\ high_temp = Zero
    /\ temp = Zero
    /\ retval = 0
    /\ exit_at = "none"
    /\ pin_level = [i \in Leds |-> FALSE]
    /\ lower_set = FALSE
    /\ upper_set = FALSE
    /\ attr_value = NoValue
    /\ trigger_calls = {}
    /\ armed = {}
    /\ led_checks = [i \in Leds |-> 0]
    /\ sensor_checks = [i \in Sensors |-> 0]
    /\ led_ops = {}
    /\ sensor_ops = {}
    /\ not_ready_seen = FALSE
    /\ iters = 0
    /\ read_ok = {}
    /\ read_failed = {}
    /\ toggled = <<>>
    /\ alert = NoAlert
    /\ baseline = [s \in Sensors |-> Zero]

\* main() executes "return r" at the statement named by why.
Return(r, why) ==
    /\ pc' = "returned"
    /\ retval' = r
    /\ exit_at' = why
    /\ idx' = idx

Goto(pos) ==
    /\ pc' = pos.pc
    /\ idx' = pos.idx
    /\ UNCHANGED <<retval, exit_at>>

InLoop == pc \in {"loop_sensor", "loop_led", "sleep"}


\* ------------------------------------------------------ startup: the LEDs
\* "if (!gpio_is_ready_dt(led)) { ...; return 0; }"
NeverExit(ready) == FALSE
NotReadyExit(ready) == ~ready

\* Value returned when gpio_pin_configure_dt fails: "return 0;"
ConfigFailReturnsRet(c) == c
ConfigFailReturn(c) == 0

AfterLedInit(i) ==
    IF i < NumLeds THEN [pc |-> "led_ready", idx |-> i + 1]
    ELSE [pc |-> "sens_ready", idx |-> 1]

GpioIsReady ==
    /\ pc = "led_ready"
    /\ \E ready \in BOOLEAN :
        /\ led_checks' = [led_checks EXCEPT ![idx] = @ + 1]
        /\ not_ready_seen' = (not_ready_seen \/ ~ready)
        /\ IF NotReadyExit(ready)
           THEN Return(0, "led_not_ready")
           ELSE Goto([pc |-> "led_config", idx |-> idx])
    /\ alert' = NoAlert
    /\ UNCHANGED <<baseline, names, led_state, is_themometer, calibVars, hwVars,
                   sensor_checks, led_ops, sensor_ops, iterVars>>

GpioPinConfigure ==
    /\ pc = "led_config"
    /\ \E c \in RetCodes :
        IF c < 0
        THEN /\ Return(ConfigFailReturn(c), "led_config")
             /\ UNCHANGED <<led_state, pin_level>>
        ELSE /\ led_state' = [led_state EXCEPT ![idx] = TRUE]
             /\ pin_level' = [pin_level EXCEPT ![idx] = TRUE]
             /\ Goto(AfterLedInit(idx))
    /\ led_ops' = led_ops \cup {idx}
    /\ alert' = NoAlert
    /\ UNCHANGED <<baseline, names, is_themometer, calibVars, lower_set, upper_set,
                   attr_value,
                   trigger_calls, armed, checkVars, sensor_ops, iterVars>>

\* --------------------------------------------------- startup: the sensors
AfterSensorInit(i) ==
    IF i < NumSensors THEN [pc |-> "sens_ready", idx |-> i + 1]
    ELSE [pc |-> "loop_sensor", idx |-> 1]

\* Classification by name, then "if (!device_is_ready(dev)) return 0;"
DeviceIsReadyThermometersOnly ==
    /\ pc = "sens_ready"
    /\ IF names[idx] = "thermometer"
       THEN /\ is_themometer' = [is_themometer EXCEPT ![idx] = 1]
            /\ \E ready \in BOOLEAN :
                /\ sensor_checks' = [sensor_checks EXCEPT ![idx] = @ + 1]
                /\ not_ready_seen' = (not_ready_seen \/ ~ready)
                /\ IF ~ready
                   THEN Return(0, "dev_not_ready")
                   ELSE Goto([pc |-> "sens_read", idx |-> idx])
       ELSE /\ UNCHANGED <<is_themometer, sensor_checks, not_ready_seen>>
            /\ Goto([pc |-> "sens_read", idx |-> idx])
    /\ alert' = NoAlert
    /\ UNCHANGED <<baseline, names, led_state, calibVars, hwVars, led_checks, led_ops,
                   sensor_ops, iterVars>>
DeviceIsReady ==
    /\ pc = "sens_ready"
    /\ is_themometer' = IF names[idx] = "thermometer"
                        THEN [is_themometer EXCEPT ![idx] = 1]
                        ELSE is_themometer
    /\ \E ready \in BOOLEAN :
        /\ sensor_checks' = [sensor_checks EXCEPT ![idx] = @ + 1]
        /\ not_ready_seen' = (not_ready_seen \/ ~ready)
        /\ IF NotReadyExit(ready)
           THEN Return(0, "dev_not_ready")
           ELSE Goto([pc |-> "sens_read", idx |-> idx])
    /\ alert' = NoAlert
    /\ UNCHANGED <<baseline, names, led_state, calibVars, hwVars, led_checks, led_ops,
                   sensor_ops, iterVars>>

\* "ret = read_temperature(dev, &value); if (ret != 0) return ret;
\*  temp = sensor_value_to_double(&value);"
ReadBaselineStep ==
    /\ pc = "sens_read"
    /\ \E r \in ReadResults :
        IF r # 0
        THEN /\ Return(r, "baseline_read")
             /\ UNCHANGED temp
        ELSE /\ \E t \in TempSamples :
                    temp' = SampleTemps[t]
             /\ Goto([pc |-> "sens_low", idx |-> idx])
    /\ sensor_ops' = sensor_ops \cup {idx}
    /\ alert' = NoAlert
    /\ UNCHANGED <<names, led_state, is_themometer, low_temp, high_temp,
                   hwVars, checkVars, led_ops, iterVars>>

ReadBaseline ==
    /\ ReadBaselineStep
    /\ UNCHANGED baseline

\* The same step, also recording the baseline the sensor is calibrated from.
ReadBaselineRecorded ==
    /\ ReadBaselineStep
    /\ baseline' = IF pc' = "sens_low"
                   THEN [baseline EXCEPT ![idx] = temp']
                   ELSE baseline

\* "low_temp = temp + 0.5; ret = sensor_value_from_double(&value, low_temp);
\*  if (ret != 0) return ret; ret = sensor_attr_set(.. LOWER_THRESH ..);"
SetLowerThreshold ==
    /\ pc = "sens_low"
    /\ low_temp' = Calibration[temp].low
    /\ LET conv == Calibration[temp].low_value IN
        IF conv.ret # 0
        THEN /\ Return(conv.ret, "convert_low")
             /\ UNCHANGED <<lower_set, attr_value, sensor_ops>>
        ELSE /\ attr_value' = [val1 |-> conv.val1, val2 |-> conv.val2]
             /\ \E a \in RetCodes : lower_set' = (a = 0)
             /\ sensor_ops' = sensor_ops \cup {idx}
             /\ Goto([pc |-> "sens_high", idx |-> idx])
    /\ alert' = NoAlert
    /\ UNCHANGED <<baseline, names, led_state, is_themometer, high_temp, temp,
                   pin_level, upper_set, trigger_calls, armed, checkVars,
                   led_ops, iterVars>>

\* "high_temp = temp + 1.5; ret = sensor_value_from_double(&value, high_temp);
\*  if (ret != 0) return ret; ret = sensor_attr_set(.. UPPER_THRESH ..);"
SetUpperThreshold ==
    /\ pc = "sens_high"
    /\ high_temp' = Calibration[temp].high
    /\ LET conv == Calibration[temp].high_value IN
        IF conv.ret # 0
        THEN /\ Return(conv.ret, "convert_high")
             /\ UNCHANGED <<upper_set, attr_value, sensor_ops>>
        ELSE /\ attr_value' = [val1 |-> conv.val1, val2 |-> conv.val2]
             /\ \E a \in RetCodes : upper_set' = (a = 0)
             /\ sensor_ops' = sensor_ops \cup {idx}
             /\ Goto([pc |-> "sens_trig", idx |-> idx])
    /\ alert' = NoAlert
    /\ UNCHANGED <<baseline, names, led_state, is_themometer, low_temp, temp,
                   pin_level, lower_set, trigger_calls, armed, checkVars,
                   led_ops, iterVars>>

\* "ret = sensor_trigger_set(dev, &trig, temp_alert_handler);" is called
\* whatever the two sensor_attr_set calls returned.
SensorTriggerSet ==
    /\ pc = "sens_trig"
    /\ \E r \in RetCodes :
        armed' = IF r = 0 THEN armed \cup {idx} ELSE armed
    /\ trigger_calls' = trigger_calls \cup {idx}
    /\ sensor_ops' = sensor_ops \cup {idx}
    /\ lower_set' = FALSE
    /\ upper_set' = FALSE
    /\ attr_value' = NoValue
    /\ Goto(AfterSensorInit(idx))
    /\ alert' = NoAlert
    /\ UNCHANGED <<baseline, names, led_state, is_themometer, calibVars, pin_level,
                   checkVars, led_ops, iterVars>>

\* -------------------------------------------------------- the monitor loop
NextSensor(i) ==
    IF i < NumSensors THEN [pc |-> "loop_sensor", idx |-> i + 1]
    ELSE [pc |-> "loop_led", idx |-> 1]

\* Where the sensor for-loop goes after a read returning r:
\* "if (ret != 0) { printf(...); break; }"
AfterLoopReadReturns(i, r) ==
    IF r # 0 THEN [pc |-> "returned", idx |-> i] ELSE NextSensor(i)
AfterLoopRead(i, r) ==
    IF r # 0 THEN [pc |-> "loop_led", idx |-> 1] ELSE NextSensor(i)

\* "if (!is_themometer[i]) continue;"
LoopSkipSensor ==
    /\ pc = "loop_sensor"
    /\ is_themometer[idx] = 0
    /\ Goto(NextSensor(idx))
    /\ alert' = NoAlert
    /\ UNCHANGED <<baseline, names, led_state, is_themometer, calibVars, hwVars,
                   checkVars, led_ops, sensor_ops, iterVars>>

LoopReadSensorRecalibrates ==
    /\ pc = "loop_sensor"
    /\ is_themometer[idx] # 0
    /\ \E r \in ReadResults :
        /\ IF r # 0
           THEN /\ read_failed' = read_failed \cup {idx}
                /\ UNCHANGED <<read_ok, low_temp, high_temp>>
           ELSE /\ read_ok' = read_ok \cup {idx}
                /\ \E t \in TempSamples :
                    /\ low_temp' = LowThreshold(SampleTemps[t])
                    /\ high_temp' = HighThreshold(SampleTemps[t])
                /\ UNCHANGED read_failed
        /\ Goto(AfterLoopRead(idx, r))
    /\ sensor_ops' = sensor_ops \cup {idx}
    /\ alert' = NoAlert
    /\ UNCHANGED <<baseline, names, led_state, is_themometer, temp, hwVars,
                   checkVars, led_ops, iters, toggled>>
LoopReadSensor ==
    /\ pc = "loop_sensor"
    /\ is_themometer[idx] # 0
    /\ \E r \in ReadResults :
        /\ IF r # 0
           THEN /\ read_failed' = read_failed \cup {idx}
                /\ UNCHANGED read_ok
           ELSE /\ read_ok' = read_ok \cup {idx}
                /\ UNCHANGED read_failed
        /\ Goto(AfterLoopRead(idx, r))
    /\ sensor_ops' = sensor_ops \cup {idx}
    /\ alert' = NoAlert
    /\ UNCHANGED <<baseline, names, led_state, is_themometer, calibVars, hwVars,
                   checkVars, led_ops, iters, toggled>>

\* "led_state[i] = !led_state[i];" runs whatever gpio_pin_toggle_dt returned.
ToggledStateOnSuccess(s, r) == IF r < 0 THEN s ELSE ~s
ToggledState(s, r) == ~s

\* Where the LED for-loop goes after a toggle returning r.
AfterToggleStopsOnFailure(i, r) ==
    IF i < NumLeds /\ r >= 0 THEN [pc |-> "loop_led", idx |-> i + 1]
    ELSE [pc |-> "sleep", idx |-> 1]
AfterToggle(i, r) ==
    IF i < NumLeds THEN [pc |-> "loop_led", idx |-> i + 1]
    ELSE [pc |-> "sleep", idx |-> 1]

LoopToggleLed ==
    /\ pc = "loop_led"
    /\ \E r \in RetCodes :
        /\ pin_level' = IF r < 0 THEN pin_level
                        ELSE [pin_level EXCEPT ![idx] = ~@]
        /\ led_state' = [led_state EXCEPT ![idx] = ToggledState(@, r)]
        /\ Goto(AfterToggle(idx, r))
        /\ iters' = IF AfterToggle(idx, r).pc = "sleep" THEN iters + 1
                    ELSE iters
    /\ toggled' = Append(toggled, idx)
    /\ led_ops' = led_ops \cup {idx}
    /\ alert' = NoAlert
    /\ UNCHANGED <<baseline, names, is_themometer, calibVars, lower_set, upper_set,
                   attr_value,
                   trigger_calls, armed, checkVars, sensor_ops, read_ok,
                   read_failed>>

\* "k_sleep(K_MSEC(1000));" and the start of the next iteration.
Sleep ==
    /\ pc = "sleep"
    /\ iters < MaxIter
    /\ Goto([pc |-> "loop_sensor", idx |-> 1])
    /\ read_ok' = {}
    /\ read_failed' = {}
    /\ toggled' = <<>>
    /\ alert' = NoAlert
    /\ UNCHANGED <<baseline, names, led_state, is_themometer, calibVars, hwVars,
                   checkVars, led_ops, sensor_ops, iters>>

\* ------------------------------------------------------ temp_alert_handler
\* Runs in the sensor subsystem's context once registered for device s; it
\* preempts main() between any two of its steps.
\* The report of one handler run for device s: one read_temperature call;
\* "if (ret < 0) { printf(...); return; }", else the classification of v.
AlertReportIgnoresFailure(s, failed, v, lo, hi) ==
    [kind |-> Classify(v, lo, hi), dev |-> s, v |-> v, failed |-> failed,
     reads |-> 1]
AlertReport(s, failed, v, lo, hi) ==
    IF failed
    THEN [kind |-> "read_failed", dev |-> s, v |-> Zero, failed |-> TRUE,
          reads |-> 1]
    ELSE [kind |-> Classify(v, lo, hi), dev |-> s, v |-> v,
          failed |-> FALSE, reads |-> 1]

TempAlertHandlerRecalibrates(s) ==
    /\ s \in armed
    /\ \E failed \in {r < 0 : r \in ReadResults} :
        IF failed
        THEN /\ alert' = AlertReport(s, TRUE, Zero, low_temp, high_temp)
             /\ UNCHANGED <<low_temp, high_temp>>
        ELSE \E t \in TempSamples :
                LET temp_read == SampleTemps[t]
                IN  /\ alert' = AlertReport(s, FALSE, temp_read, low_temp,
                                            high_temp)
                    /\ low_temp' = LowThreshold(temp_read)
                    /\ high_temp' = HighThreshold(temp_read)
    /\ sensor_ops' = sensor_ops \cup {s}
    /\ UNCHANGED <<baseline, names, pc, idx, led_state, is_themometer, temp,
                   retval, exit_at, hwVars, checkVars, led_ops, iterVars>>
TempAlertHandler(s) ==
    /\ s \in armed
    /\ \E failed \in {r < 0 : r \in ReadResults} :
        IF failed
        THEN alert' = AlertReport(s, TRUE, Zero, low_temp, high_temp)
        ELSE \E t \in TempSamples :
                LET temp_read == SampleTemps[t]
                IN  alert' = AlertReport(s, FALSE, temp_read, low_temp,
                                        high_temp)
    /\ sensor_ops' = sensor_ops \cup {s}
    /\ UNCHANGED <<baseline, names, pc, idx, led_state, is_themometer,
                   calibVars, retval, exit_at, hwVars, checkVars, led_ops,
                   iterVars>>

Next ==
    \/ GpioIsReady
    \/ GpioPinConfigure
    \/ DeviceIsReady
    \/ ReadBaseline
    \/ SetLowerThreshold
    \/ SetUpperThreshold
    \/ SensorTriggerSet
    \/ LoopSkipSensor
    \/ LoopReadSensor
    \/ LoopToggleLed
    \/ Sleep
    \/ \E s \in Sensors : TempAlertHandler(s)

Spec == Init /\ [][Next]_vars

\* The same program, with the history variable baseline recorded.
NextRecorded ==
    \/ GpioIsReady
    \/ GpioPinConfigure
    \/ DeviceIsReady
    \/ ReadBaselineRecorded
    \/ SetLowerThreshold
    \/ SetUpperThreshold
    \/ SensorTriggerSet
    \/ LoopSkipSensor
    \/ LoopReadSensor
    \/ LoopToggleLed
    \/ Sleep
    \/ \E s \in Sensors : TempAlertHandler(s)

SpecRecorded == Init /\ [][NextRecorded]_vars

TypeOK ==
    /\ pc \in {"led_ready", "led_config", "sens_ready", "sens_read",
               "sens_low", "sens_high", "sens_trig", "loop_sensor",
               "loop_led", "sleep", "returned"}
    /\ led_state \in [Leds -> BOOLEAN]
    /\ armed \subseteq Sensors
    /\ iters \in 0..MaxIter
    /\ attr_value.val2 \in 0..(Million - 1)
    /\ temp.hi = 0 \/ (temp.hi >= 67108864 /\ temp.hi < 134217728)

\* ===================================================== template variant
\* demo/templates/blinky-temperature: the generated main() with one
\* init/toggle statement per LED and one init/read statement per
\* sensor node named "thermometer" in the manifest, on utils.c.
\* led_state[i] is led->state, pin_level[i] the pin's logical level.

tplFrame == <<names, is_themometer, low_temp, high_temp, lower_set,
              upper_set, attr_value, trigger_calls, armed, not_ready_seen,
              alert, baseline>>

\* The thermometers the file was generated for, and the positions of main()
\* before the statement of the first thermometer after sensor i.
Thermometers == {s \in Sensors : names[s] = "thermometer"}

TplNextThermometer(i, at, done) ==
    LET rest == {s \in Thermometers : s > i} IN
    IF rest = {} THEN [pc |-> done, idx |-> 1]
    ELSE [pc |-> at,
          idx |-> CHOOSE s \in rest : \A o \in rest : s <= o]

TemplateInit ==
    /\ names \in [Sensors -> SensorNames]
    /\ pc = "t_init_led"
    /\ idx = 1
    /\ led_state = [i \in Leds |-> FALSE]
    /\ is_themometer = [i \in Sensors |-> 0]
    /\ low_temp = Zero
    /\ high_temp = Zero
    /\ temp = Zero
    /\ retval = 0
    /\ exit_at = "none"
    /\ pin_level = [i \in Leds |-> FALSE]
    /\ lower_set = FALSE
    /\ upper_set = FALSE
    /\ attr_value = NoValue
    /\ trigger_calls = {}
    /\ armed = {}
    /\ led_checks = [i \in Leds |-> 0]
    /\ sensor_checks = [i \in Sensors |-> 0]
    /\ led_ops = {}
    /\ sensor_ops = {}
    /\ not_ready_seen = FALSE
    /\ iters = 0
    /\ read_ok = {}
    /\ read_failed = {}
    /\ toggled = <<>>
    /\ alert = NoAlert
    /\ baseline = [s \in Sensors |-> Zero]

\* init_led(): -1 when the pin is not ready, the configure code when that
\* is negative, else "led->state = false; return 0;" with the pin
\* configured GPIO_OUTPUT_ACTIVE.
init_led(ready, c) ==
    IF ~ready THEN [ret |-> -1, state |-> FALSE, pin |-> FALSE]
    ELSE IF c < 0 THEN [ret |-> c, state |-> FALSE, pin |-> FALSE]
    ELSE [ret |-> 0, state |-> FALSE, pin |-> TRUE]

\* init_thermometer(): -1 when the device is not ready, else 0.
init_thermometer(ready) == IF ready THEN 0 ELSE -1

\* toggle_led_state(): a negative gpio_pin_toggle_dt code is returned before
\* led->state is touched; otherwise pin and led->state are both inverted.
toggle_led_state(state, pin, r) ==
    IF r < 0 THEN [ret |-> r, state |-> state, pin |-> pin]
    ELSE [ret |-> 0, state |-> ~state, pin |-> ~pin]

\* get_temperature(): NAN when read_temperature returned non-zero.
get_temperature(r, t) ==
    IF r # 0 THEN [nan |-> TRUE, v |-> Zero]
    ELSE [nan |-> FALSE,
          v |-> sensor_value_to_double(t)]

TplInLoop == pc \in {"t_toggle", "t_temp", "t_sleep"}

\* "ret = init_led(&led); if (ret < 0) return ret;"
TplInitLed ==
    /\ pc = "t_init_led"
    /\ \E ready \in BOOLEAN, c \in RetCodes :
        LET res == init_led(ready, c) IN
        /\ led_ops' = IF ready THEN led_ops \cup {idx} ELSE led_ops
        /\ IF res.ret < 0
           THEN /\ Return(res.ret, "init_led")
                /\ UNCHANGED <<led_state, pin_level>>
           ELSE /\ led_state' = [led_state EXCEPT ![idx] = res.state]
                /\ pin_level' = [pin_level EXCEPT ![idx] = res.pin]
                /\ Goto(IF idx < NumLeds
                        THEN [pc |-> "t_init_led", idx |-> idx + 1]
                        ELSE TplNextThermometer(0, "t_init_thermometer",
                                                "t_toggle"))
    /\ led_checks' = [led_checks EXCEPT ![idx] = @ + 1]
    /\ UNCHANGED <<tplFrame, temp, sensor_checks, sensor_ops, iterVars>>

\* "ret = init_thermometer(&thermometer); if (ret < 0) return ret;"
TplInitThermometer ==
    /\ pc = "t_init_thermometer"
    /\ \E ready \in BOOLEAN :
        LET ret == init_thermometer(ready) IN
        IF ret < 0
        THEN Return(ret, "init_thermometer")
        ELSE Goto(TplNextThermometer(idx, "t_init_thermometer",
                                     "t_toggle"))
    /\ sensor_checks' = [sensor_checks EXCEPT ![idx] = @ + 1]
    /\ UNCHANGED <<tplFrame, temp, led_state, pin_level, led_checks,
                   led_ops, sensor_ops, iterVars>>

\* "ret = toggle_led_state(&led); if (ret < 0) return ret;"
TplToggleLed ==
    /\ pc = "t_toggle"
    /\ \E r \in RetCodes :
        LET res == toggle_led_state(led_state[idx], pin_level[idx], r) IN
        /\ led_state' = [led_state EXCEPT ![idx] = res.state]
        /\ pin_level' = [pin_level EXCEPT ![idx] = res.pin]
        /\ IF res.ret < 0
           THEN Return(res.ret, "toggle_led_state")
           ELSE Goto(IF idx < NumLeds
                     THEN [pc |-> "t_toggle", idx |-> idx + 1]
                     ELSE TplNextThermometer(0, "t_temp", "t_sleep"))
    /\ iters' = IF pc' = "t_sleep" THEN iters + 1 ELSE iters
    /\ toggled' = Append(toggled, idx)
    /\ led_ops' = led_ops \cup {idx}
    /\ UNCHANGED <<tplFrame, temp, led_checks, sensor_checks, sensor_ops,
                   read_ok, read_failed>>

\* "temp = get_temperature(&thermometer); if (isnan(temp)) return -1;"
TplGetTemperature ==
    /\ pc = "t_temp"
    /\ \E r \in ReadResults, t \in TempSamples :
        LET res == get_temperature(r, t) IN
        IF res.nan
        THEN /\ Return(-1, "get_temperature")
             /\ read_failed' = read_failed \cup {idx}
             /\ UNCHANGED <<temp, read_ok, iters>>
        ELSE /\ temp' = res.v
             /\ read_ok' = read_ok \cup {idx}
             /\ Goto(TplNextThermometer(idx, "t_temp", "t_sleep"))
             /\ iters' = IF pc' = "t_sleep" THEN iters + 1 ELSE iters
             /\ UNCHANGED read_failed
    /\ sensor_ops' = sensor_ops \cup {idx}
    /\ UNCHANGED <<tplFrame, led_state, pin_level, led_checks,
                   sensor_checks, led_ops, toggled>>

\* "k_sleep(K_MSEC(1000));" and the start of the next iteration.
TplSleep ==
    /\ pc = "t_sleep"
    /\ iters < MaxIter
    /\ Goto([pc |-> "t_toggle", idx |-> 1])
    /\ toggled' = <<>>
    /\ read_ok' = {}
    /\ UNCHANGED <<tplFrame, temp, led_state, pin_level, led_checks,
                   sensor_checks, led_ops, sensor_ops, iters, read_failed>>

TemplateNext ==
    \/ TplInitLed
    \/ TplInitThermometer
    \/ TplToggleLed
    \/ TplGetTemperature
    \/ TplSleep

TemplateSpec == TemplateInit /\ [][TemplateNext]_vars

\* ==================================================================== claims

\* C1: once any LED or sensor readiness check has reported not-ready, main()
\* has returned and no monitor-loop activity (sensor read, LED toggle,
\* completed iteration) exists; the loop is never entered afterwards.
C1_NotReadyPreventsLoop ==
    not_ready_seen =>
        /\ pc = "returned"
        /\ iters = 0
        /\ toggled = <<>>
        /\ read_ok = {}
        /\ read_failed = {}

\* A sensor reported not-ready after every LED had been set up.
C1_Witness ==
    /\ not_ready_seen
    /\ exit_at = "dev_not_ready"
    /\ idx = NumSensors
    /\ led_ops = Leds

\* C2: in an iteration, a failed read of thermometer A leaves every other
\* thermometer B read (attempted) in that same iteration.
C2_ReadFailureIndependent ==
    pc \in {"loop_led", "sleep"} =>
        \A a \in read_failed : \A b \in Sensors :
            (b # a /\ is_themometer[b] # 0) =>
                b \in (read_ok \cup read_failed)

\* C3: every iteration attempts a toggle on each LED exactly once, in list
\* order, whatever sensor reads or other toggles failed.
C3_EveryLedToggledOnce ==
    /\ pc = "loop_sensor" => toggled = <<>>
    /\ pc = "loop_led" => toggled = [i \in 1..(idx - 1) |-> i]
    /\ pc = "sleep" => toggled = [i \in Leds |-> i]

\* First iteration finished after a sensor read failed and LED 1's toggle
\* call failed (its pin did not follow the stored state).
C3_Witness ==
    /\ pc = "sleep"
    /\ iters = 1
    /\ read_failed # {}
    /\ pin_level[1] # led_state[1]
    /\ toggled = [i \in Leds |-> i]

\* a - b = c as real numbers, with no rounding.
DiffersBy(a, b, c) ==
    LET asNeg(d) == [d EXCEPT !.neg = ~@]
        d == ExactAdd(ExactAdd(Dyadic(a), Dyadic(asNeg(b))),
                      Dyadic(asNeg(c)))
    IN  \A i \in 1..Len(d.bits) : d.bits[i] = 0

\* C4 as stated: after a successful baseline read, lower = baseline + 0.5
\* and upper = baseline + 1.5, so upper - lower = 1.0 and
\* lower - baseline = 0.5 exactly, for every baseline.
C4_ThresholdOffsets ==
    /\ pc = "sens_high" => DiffersBy(low_temp, temp, Half)
    /\ (pc = "sens_trig" \/ InLoop) =>
            /\ DiffersBy(high_temp, low_temp, One)
            /\ DiffersBy(low_temp, temp, Half)
            /\ DiffersBy(high_temp, temp, OneAndHalf)

\* r is a double nearest to a + b: the exact difference r - a - b is at
\* most half a unit in the last place of r, 2^(r.exp - 53).
NearestToSum(r, a, b) ==
    LET asNeg(d) == [d EXCEPT !.neg = ~@]
        e == ExactAdd(ExactAdd(Dyadic(r), Dyadic(asNeg(a))),
                      Dyadic(asNeg(b)))
        s == Strip(e.bits)
        k == r.exp - 53 + e.flen
    IN  \/ Len(s) = 0
        \/ /\ k >= 0
           /\ \/ Len(s) <= k
              \/ Len(s) = k + 1 /\ \A i \in 2..Len(s) : s[i] = 0

\* C4 (amended): lower and upper are baseline + 0.5 and baseline + 1.5
\* rounded to the nearest double, so lower - baseline and upper - baseline
\* are 0.5 and 1.5 to within half a unit in the last place of lower and
\* of upper.
C4_ThresholdsNearestDoubles ==
    /\ pc \in {"sens_high", "sens_trig"} =>
            NearestToSum(low_temp, temp, Half)
    /\ pc = "sens_trig" => NearestToSum(high_temp, temp, OneAndHalf)

\* Both thresholds set from the baseline 31.7 C, whose sum with 0.5 falls
\* between two doubles: lower has the next binary exponent.
C4_Witness ==
    /\ pc = "sens_trig"
    /\ temp = [neg |-> FALSE, exp |-> 4, hi |-> 132959436, lo |-> 53687091]
    /\ low_temp.exp = 5
    /\ high_temp.exp = 5
    /\ ~DiffersBy(low_temp, temp, Half)

\* C5: a handler run whose read succeeded emits exactly one of the three
\* reports: below iff v <= lower, above iff v > lower and v >= upper,
\* inconsistency iff lower < v < upper.
C5_AlertClassification ==
    alert.kind \notin {"none", "read_failed"} =>
        /\ alert.kind \in {"below", "above", "inconsistent"}
        /\ (alert.kind = "below") <=> LessEq(alert.v, low_temp)
        /\ (alert.kind = "above") <=>
                (Less(low_temp, alert.v) /\ LessEq(high_temp, alert.v))
        /\ (alert.kind = "inconsistent") <=>
                (Less(low_temp, alert.v) /\ Less(alert.v, high_temp))

\* Baseline 20.0 C (bounds 20.5 and 21.5), a dispatched read of 21.077 C
\* gives the inconsistency report.
C5_Witness ==
    /\ alert.kind = "inconsistent"
    /\ low_temp = [neg |-> FALSE, exp |-> 4, hi |-> 85983232, lo |-> 0]
    /\ high_temp = [neg |-> FALSE, exp |-> 4, hi |-> 90177536, lo |-> 0]
    /\ alert.v = SampleTemps[[val1 |-> 21, val2 |-> 77000]]

\* C6: sensor_trigger_set is called for a sensor only if both
\* sensor_attr_set calls of its calibration succeeded.
C6_TriggerOnlyIfBothInstalled ==
    [][(trigger_calls' # trigger_calls) => (lower_set /\ upper_set)]_vars

\* C7: every LED's stored state is true when the loop is entered and, after
\* N completed iterations, true iff N is even.
C7_LedStateParity ==
    pc \in {"loop_sensor", "sleep"} =>
        \A i \in Leds : led_state[i] = (iters % 2 = 0)

\* Two iterations completed, with a toggle call of LED 1 having failed.
C7_Witness ==
    /\ pc = "sleep"
    /\ iters = 2
    /\ led_state[1]
    /\ pin_level[1] # led_state[1]

\* C8: once main() is in the monitor loop it stays there; while iterations
\* remain within the bound, main() always has a next step to take.
MainStep ==
    \/ LoopSkipSensor
    \/ LoopReadSensor
    \/ LoopToggleLed
    \/ Sleep
C8_LoopNeverLeft ==
    /\ []((InLoop /\ ~(pc = "sleep" /\ iters = MaxIter)) => ENABLED MainStep)
    /\ [][InLoop => InLoop']_vars

\* In the loop after an iteration in which a sensor read and a toggle
\* failed, with the alert handler just having failed its read.
C8_Witness ==
    /\ InLoop
    /\ iters >= 1
    /\ read_failed # {}
    /\ pin_level[1] # led_state[1]
    /\ alert.kind = "read_failed"

\* C9: each handle's readiness check is performed at most once, exactly
\* once by the time the loop runs, and any handle that has been operated on
\* (configure, toggle, read, attribute set, trigger set) has been checked
\* exactly once before.
C9_ReadyCheckedOnceFirst ==
    /\ \A i \in Leds :
        /\ led_checks[i] <= 1
        /\ i \in led_ops => led_checks[i] = 1
        /\ InLoop => led_checks[i] = 1
    /\ \A s \in Sensors :
        /\ sensor_checks[s] <= 1
        /\ s \in sensor_ops => sensor_checks[s] = 1
        /\ InLoop => sensor_checks[s] = 1

\* Every handle has been operated on, in the loop and by the handler.
C9_Witness ==
    /\ InLoop
    /\ iters >= 1
    /\ led_ops = Leds
    /\ sensor_ops = Sensors
    /\ \E s \in Sensors : is_themometer[s] = 0
    /\ alert.kind \in {"below", "above"}

\* C10 as stated: main() returns 0 on a readiness failure, non-zero on a
\* baseline read failure or a threshold conversion failure, and in no other
\* way.
C10_OnlyReadinessOrIoReturns ==
    pc = "returned" =>
        \/ exit_at \in {"led_not_ready", "dev_not_ready"} /\ retval = 0
        \/ exit_at \in {"baseline_read", "convert_low", "convert_high"}
           /\ retval # 0

\* C10 amended: main() also returns 0 when gpio_pin_configure_dt fails for
\* an LED; with that, the listed returns are the only ones.
C10_ReturnCodes ==
    pc = "returned" =>
        \/ exit_at \in {"led_not_ready", "dev_not_ready", "led_config"}
           /\ retval = 0
        \/ exit_at \in {"baseline_read", "convert_low", "convert_high"}
           /\ retval # 0

\* Startup aborted by a conversion failure of the second sensor's upper
\* threshold: its baseline of 2147483646 C plus 1.5 exceeds INT32_MAX.
C10_Witness ==
    /\ pc = "returned"
    /\ exit_at = "convert_high"
    /\ idx = NumSensors
    /\ retval = 0 - ERANGE

\* C11: with every sensor calibrated, a handler run for sensor s compares
\* against the bounds computed from s's own baseline.
C11_HandlerUsesOwnBounds ==
    (InLoop /\ alert.kind \in {"below", "above", "inconsistent"}) =>
        /\ low_temp = LowThreshold(baseline[alert.dev])
        /\ high_temp = HighThreshold(baseline[alert.dev])

\* C12: wherever the handler can run (some trigger is registered), the
\* bounds it would compare against satisfy lower < upper strictly.
C12_BoundsOrdered ==
    armed # {} => Less(low_temp, high_temp)

\* C13: a handler run whose read failed performs that one read only, emits
\* the failure report and no classification, leaves main() where it was,
\* and the monitor loop can take its next step.
C13_FailedReadOnlyReported ==
    /\ [](alert.failed => (alert.kind = "read_failed" /\ alert.reads = 1))
    /\ []((alert.failed /\ InLoop /\ ~(pc = "sleep" /\ iters = MaxIter))
            => ENABLED MainStep)
    /\ [][alert'.failed => (pc' = pc /\ idx' = idx /\ iters' = iters)]_vars

\* The handler failed its read while main() was reading sensors in the
\* second iteration.
C13_Witness ==
    /\ alert.failed
    /\ pc = "loop_sensor"
    /\ iters = 1

\* C14: a handler run leaves led_state, is_themometer, low_temp and
\* high_temp unchanged; led_state changes only in main()'s LED
\* configuration step and LED toggle step.
C14_HandlerFrame ==
    [][/\ alert'.kind # "none" =>
            UNCHANGED <<led_state, is_themometer, low_temp, high_temp>>
       /\ led_state' # led_state =>
            (pc \in {"led_config", "loop_led"} /\ alert'.kind = "none")]_vars

\* The handler ran while main() was between the two threshold assignments
\* of the last sensor's calibration.
C14_Witness ==
    /\ alert.kind = "above"
    /\ pc = "sens_high"
    /\ idx = NumSensors

\* C15: after main() has returned from an aborted startup no report is
\* emitted, not even by the handler of an earlier, armed sensor.
C15_NoReportAfterAbort ==
    pc = "returned" => alert.kind = "none"

\* C16: in every iteration each thermometer whose own read did not fail is
\* read and reported, and no other sensor is read by the loop.
C16_ThermometersReadEachIteration ==
    /\ pc \in {"loop_led", "sleep"} =>
        \A s \in Sensors :
            (is_themometer[s] # 0 /\ s \notin read_failed) => s \in read_ok
    /\ \A s \in read_ok \cup read_failed : is_themometer[s] # 0

\* C17: between iterations each LED's stored state equals its pin's
\* logical output level.
C17_LedStateMatchesPin ==
    pc \in {"loop_sensor", "sleep"} =>
        \A i \in Leds : led_state[i] = pin_level[i]

\* C18: once the monitor loop is entered, no step changes low_temp or
\* high_temp.
C18_BoundsFrozenInLoop ==
    [][InLoop => (low_temp' = low_temp /\ high_temp' = high_temp)]_vars

\* All iterations done, a sensor was read in the last one and the handler
\* has just run.
C18_Witness ==
    /\ pc = "sleep"
    /\ iters = MaxIter
    /\ read_ok # {}
    /\ alert.kind = "inconsistent"

\* C19: in the template variant, main() never leaves the monitor loop: a
\* failed LED toggle or a failed temperature read does not make it return.
C19_TemplateLoopNeverLeft ==
    [][TplInLoop => TplInLoop']_vars

\* C20: in the template variant, once every init_led has succeeded,
\* led->state equals the pin's logical output level, whatever toggles
\* followed.
C20_TemplateLedStateMatchesPin ==
    (pc = "t_init_thermometer" \/ TplInLoop) =>
        \A i \in Leds : led_state[i] = pin_level[i]

====
